---- MODULE Spec2Model ----
(***************************************************************************)
(* lePong: the staged lifetime manager (TryInitItems / CleanupItems over   *)
(* tables of Lifetime items), the public entry points Init / Run /         *)
(* Cleanup, and the per-frame simulation (OnKeyEvent, OnUpdate, scoring).  *)
(*                                                                         *)
(* Floats are modelled in fixed point: positions and sizes in pixels,      *)
(* move directions in thousandths, speeds in pixels per second and time in *)
(* milliseconds, so that position += direction * speed * delta becomes     *)
(* position + (direction * speed * delta) / 1000000, truncated to zero.    *)
(***************************************************************************)
EXTENDS Integers, Sequences, FiniteSets, TLC

VARIABLES
    lifetimes,      \* the Lifetime table the current call works on
    fail,           \* the leaf init functions that return false when called
    log,            \* the leaf functions called by the last entry point, in order
    up,             \* the leaf resources currently initialized
    op,             \* the last entry point called
    ret,            \* what it returned
    sInitialized,   \* lepong.cpp:22
    sRunning,       \* lepong.cpp:555
    pc,             \* where the caller of Run is: "idle", "loop", "exit"
    sPlaying,       \* lepong.cpp:34
    sPlayerScores,  \* lepong.cpp:35
    sBall,          \* lepong.cpp:40
    sPaddle1,       \* lepong.cpp:45
    sPaddle2,       \* lepong.cpp:46
    sLastTime,      \* lepong.cpp:660
    frame,          \* what the last OnUpdate did, step by step
    frames,         \* loop iterations executed so far
    keys,           \* key events delivered so far
    run,            \* what Run has done so far
    misuse,         \* the leaf functions called out of turn so far
    glObjects,      \* the OpenGL shader and program objects alive
    sPaddleProgram, \* lepong.cpp:27
    sBallProgram,   \* lepong.cpp:28
    call            \* the last call made on a paddle or on a program

lifeVars == <<lifetimes, fail, log, up, op, ret, misuse>>
runVars  == <<sInitialized, sRunning, pc>>
gameVars == <<sPlaying, sPlayerScores, sBall, sPaddle1, sPaddle2, sLastTime, frame, frames, keys>>
glVars   == <<glObjects, sPaddleProgram, sBallProgram, call>>
vars     == <<lifetimes, fail, log, up, op, ret, sInitialized, sRunning, pc,
              sPlaying, sPlayerScores, sBall, sPaddle1, sPaddle2, sLastTime, frame, frames, keys,
              run, misuse, glObjects, sPaddleProgram, sBallProgram, call>>

(***************************************************************************)
(* Bounds of the model.                                                    *)
(***************************************************************************)
MaxItems == 5
MaxFrames == 4
MaxKeys == 2
LifeFrames == 1
LifeKeys == 1
MaxPaddleCalls == 4
MaxHandles == 6

(***************************************************************************)
(* Lifetime: a pair of function pointers. A function is named by a pair    *)
(* <<name, index>>; the index tells the items of a generic table apart.    *)
(***************************************************************************)
Lifetime(init, cleanup) == [mInit |-> init, mCleanup |-> cleanup]

Fn(name) == <<name, 0>>

kGameLifetimes ==
    << Lifetime(Fn("InitGameSystems"), Fn("CleanupGameSystems")),
       Lifetime(Fn("InitState"), Fn("CleanupState")) >>

skSystemLifetimes ==
    << Lifetime(Fn("Log::Init"), Fn("Log::Cleanup")),
       Lifetime(Fn("Window::Init"), Fn("Window::Cleanup")),
       Lifetime(Fn("Graphics::Init"), Fn("Graphics::Cleanup")),
       Lifetime(Fn("gl::Init"), Fn("gl::Cleanup")),
       Lifetime(Fn("Time::Init"), Fn("Time::Cleanup")) >>

kStateLifetimes ==
    << Lifetime(Fn("InitGameWindow"), Fn("CleanupGameWindow")),
       Lifetime(Fn("InitContext"), Fn("CleanupContext")),
       Lifetime(Fn("InitGraphicsResources"), Fn("CleanupGraphicsResources")) >>

skGraphicsResourceLifetimes ==
    << Lifetime(Fn("InitPaddleProgram"), Fn("CleanupPaddleProgram")),
       Lifetime(Fn("InitBallProgram"), Fn("CleanupBallProgram")),
       Lifetime(Fn("InitQuad"), Fn("CleanupQuad")),
       Lifetime(Fn("InitTexturedQuad"), Fn("CleanupTexturedQuad")) >>

\* The leaf items, in the order Init reaches them.
LeafLifetimes ==
    skSystemLifetimes \o SubSeq(kStateLifetimes, 1, 2) \o skGraphicsResourceLifetimes

LeafInits == { LeafLifetimes[i].mInit : i \in 1..Len(LeafLifetimes) }

\* The init function a leaf cleanup function is paired with.
InitOf(c) ==
    IF c[1] = "Cleanup"
    THEN <<"Init", c[2]>>
    ELSE (CHOOSE l \in {LeafLifetimes[i] : i \in 1..Len(LeafLifetimes)} : l.mCleanup = c).mInit

\* A generic table of n leaf items, item i with its own init and cleanup.
GenericLifetimes(n) == [i \in 1..n |-> Lifetime(<<"Init", i - 1>>, <<"Cleanup", i - 1>>)]

(***************************************************************************)
(* The state the lifetime functions act on: st = [log, up, fail, misuse].  *)
(***************************************************************************)
RECURSIVE CallInit(_, _)
RECURSIVE CallCleanup(_, _)
RECURSIVE TryInitLoop(_, _, _)
RECURSIVE CleanupItemsStartingAt(_, _, _)

\* A leaf init: it is called (logged), and succeeds unless it is one of fail.
\* Graphics::Init refuses to load the library twice. A call that finds the
\* resource already initialized is out of turn (for Graphics::Init: the
\* assertion !sOpenGLLibrary fails).
LeafInit(f, st) ==
    LET refused == f = Fn("Graphics::Init") /\ f \in st.up
        ok == ~refused /\ f \notin st.fail
    IN  [ok |-> ok,
         st |-> [st EXCEPT !.log = Append(@, f),
                           !.up = IF ok THEN @ \cup {f} ELSE @,
                           !.misuse = IF f \in st.up THEN @ \cup {f} ELSE @]]

\* A leaf cleanup: it is called (logged) and releases the item's resource.
\* A call that finds the resource not initialized is out of turn (for
\* Graphics::Cleanup: the assertion sOpenGLLibrary fails).
LeafCleanup(f, st) ==
    [st EXCEPT !.log = Append(@, f),
               !.up = @ \ {InitOf(f)},
               !.misuse = IF InitOf(f) \notin st.up THEN @ \cup {f} ELSE @]

\* Mutant: the loop stops at i > 0 and never cleans up item 0.
CleanupItemsStartingAt_SkipsItem0(lifetimes_, index, st) ==
    IF index - 1 > 0
    THEN CleanupItemsStartingAt(lifetimes_, index - 1,
                                CallCleanup(lifetimes_[index].mCleanup, st))
    ELSE st

\* for (i = index - 1; i >= 0; --i) lifetimes[i].Cleanup();
\* i counts the items still to clean up, the next one is lifetimes[i] (1-based).
CleanupItemsStartingAt(lifetimes_, index, st) ==
    IF index - 1 >= 0
    THEN CleanupItemsStartingAt(lifetimes_, index - 1,
                                CallCleanup(lifetimes_[index].mCleanup, st))
    ELSE st

\* Mutant: the rollback starts at the failing item itself.
TryInitLoop_CleansFailedItem(lifetimes_, i, st) ==
    IF i < Len(lifetimes_)
    THEN LET r == CallInit(lifetimes_[i + 1].mInit, st)
         IN  IF r.ok
             THEN TryInitLoop(lifetimes_, i + 1, r.st)
             ELSE [ok |-> FALSE, st |-> CleanupItemsStartingAt(lifetimes_, i + 1, r.st)]
    ELSE [ok |-> TRUE, st |-> st]

\* Mutant: the loop condition does not test succeeded, the loop goes on after
\* a failure.
TryInitLoop_GoesOn(lifetimes_, i, st) ==
    IF i < Len(lifetimes_)
    THEN LET r == CallInit(lifetimes_[i + 1].mInit, st)
         IN  IF r.ok
             THEN TryInitLoop(lifetimes_, i + 1, r.st)
             ELSE [ok |-> FALSE,
                   st |-> TryInitLoop(lifetimes_, i + 1,
                                      CleanupItemsStartingAt(lifetimes_, i, r.st)).st]
    ELSE [ok |-> TRUE, st |-> st]

\* The loop of TryInitItems from item i (0-based) on, succeeded being true.
TryInitLoop(lifetimes_, i, st) ==
    IF i < Len(lifetimes_)
    THEN LET r == CallInit(lifetimes_[i + 1].mInit, st)
         IN  IF r.ok
             THEN TryInitLoop(lifetimes_, i + 1, r.st)
             ELSE [ok |-> FALSE, st |-> CleanupItemsStartingAt(lifetimes_, i, r.st)]
    ELSE [ok |-> TRUE, st |-> st]

\* Mutant: the items are rolled back whether or not an init failed.
TryInitItems_AlwaysRollsBack(lifetimes_, st) ==
    LET r == TryInitLoop(lifetimes_, 0, st)
    IN  IF r.ok
        THEN [ok |-> TRUE, st |-> CleanupItemsStartingAt(lifetimes_, Len(lifetimes_), r.st)]
        ELSE r

TryInitItems(lifetimes_, st) == TryInitLoop(lifetimes_, 0, st)

\* Mutant: the last item is left out of the teardown.
CleanupItems_SkipsLastItem(itemLifetimes, st) ==
    CleanupItemsStartingAt(itemLifetimes, Len(itemLifetimes) - 1, st)

CleanupItems(itemLifetimes, st) ==
    CleanupItemsStartingAt(itemLifetimes, Len(itemLifetimes), st)

InitGameSystems(st) == TryInitItems(skSystemLifetimes, st)
CleanupGameSystems(st) == CleanupItems(skSystemLifetimes, st)
\* Mutant: the result of the nested table is dropped.
InitState_IgnoresFailure(st) ==
    [ok |-> TRUE, st |-> TryInitItems(kStateLifetimes, st).st]

InitState(st) == TryInitItems(kStateLifetimes, st)
CleanupState(st) == CleanupItems(kStateLifetimes, st)
InitGraphicsResources(st) == TryInitItems(skGraphicsResourceLifetimes, st)
CleanupGraphicsResources(st) == CleanupItems(skGraphicsResourceLifetimes, st)

\* Lifetime::Init: the call through the mInit pointer.
CallInit(f, st) ==
    CASE f = Fn("InitGameSystems") -> InitGameSystems(st)
      [] f = Fn("InitState") -> InitState(st)
      [] f = Fn("InitGraphicsResources") -> InitGraphicsResources(st)
      [] OTHER -> LeafInit(f, st)

\* Lifetime::Cleanup: the call through the mCleanup pointer.
CallCleanup(f, st) ==
    CASE f = Fn("CleanupGameSystems") -> CleanupGameSystems(st)
      [] f = Fn("CleanupState") -> CleanupState(st)
      [] f = Fn("CleanupGraphicsResources") -> CleanupGraphicsResources(st)
      [] OTHER -> LeafCleanup(f, st)

(***************************************************************************)
(* The game objects as constructed at program start (static storage).      *)
(***************************************************************************)
Vector2(x_, y_) == [x |-> x_, y |-> y_]

GameObject == [position |-> Vector2(0, 0), moveDirection |-> Vector2(0, 0), moveSpeed |-> 0]

NoFrame == [steps |-> <<>>, delta |-> 0, terrain |-> FALSE, hit |-> 0, side |-> "None"]

\* What Run has done: the calls of PollEvents, OnUpdate and OnRender since
\* the process started, the calls of OnFinishRun and the steps of the last
\* iteration since Run was last entered; the last reading of the clock and
\* the sum of the deltas passed to OnUpdate since the process started.
NoRun == [polls |-> 0, updates |-> 0, renders |-> 0, finishes |-> 0, steps |-> <<>>,
          clock |-> 0, deltas |-> 0]

\* No OpenGL object exists; the next handle glCreate* hands out.
NoObjects == [shaders |-> {}, programs |-> {}, next |-> 1]

NoCall == [fn |-> "none"]

StaticInit ==
    /\ sInitialized = FALSE
    /\ sRunning = FALSE
    /\ pc = "idle"
    /\ sPlaying = FALSE
    /\ sPlayerScores = <<0, 0>>
    /\ sBall = GameObject
    /\ sPaddle1 = GameObject
    /\ sPaddle2 = GameObject
    /\ sLastTime = 0
    /\ frame = NoFrame
    /\ frames = 0
    /\ keys = 0
    /\ run = NoRun
    /\ misuse = {}
    /\ glObjects = NoObjects
    /\ sPaddleProgram = 0
    /\ sBallProgram = 0
    /\ call = NoCall

(***************************************************************************)
(* Program constants.                                                      *)
(***************************************************************************)
skWinSizeX == 1280
skWinSizeY == 720
skBallRadius == 20
skPaddleSizeX == 25
skPaddleSizeY == 150
kBorderOffset == 50
Paddle_skDefaultMoveSpeed == 300
\* Ball::skDefaultMoveSpeed and the speed a paddle bounce adds.
Ball_skDefaultMoveSpeed == 500
Ball_skMoveSpeedIncrement == 50
\* A whole unit of a move direction component, and of time, in fixed point.
One == 1000
\* Half the width of unsigned: a value is held as [hi, lo], 16 bits each.
UIntHalf == 65536
\* 2^24: a float has 24 significant bits.
TwoTo24 == 16777216

\* a - b in unsigned arithmetic, for a and b below 2^16.
UnsignedSub(a, b) ==
    [hi |-> IF a >= b THEN 0 ELSE UIntHalf - 1, lo |-> (a - b) % UIntHalf]

\* Integer division truncating towards zero, as a float-to-pixel cut does.
TruncDiv(a, b) == IF a >= 0 THEN a \div b ELSE -((-a) \div b)

ISqrt(n) == CHOOSE r \in 0..(2 * One) : r * r <= n /\ n < (r + 1) * (r + 1)

\* Normalize: the vector divided by its length (the zero vector is kept).
Normalize(v) ==
    LET len == ISqrt(v.x * v.x + v.y * v.y)
    IN  IF len = 0 THEN v
        ELSE Vector2(TruncDiv(v.x * One, len), TruncDiv(v.y * One, len))

Abs(a) == IF a >= 0 THEN a ELSE -a

\* enum class Side, by ordinal.
SideOrdinal(side) ==
    CASE side = "Left" -> 0
      [] side = "Right" -> 1
      [] side = "None" -> 2

\* GameObject::Update: position += moveDirection * moveSpeed * delta.
GameObject_Update(o, delta) ==
    [o EXCEPT !.position =
        Vector2(@.x + TruncDiv(o.moveDirection.x * o.moveSpeed * delta, One * One),
                @.y + TruncDiv(o.moveDirection.y * o.moveSpeed * delta, One * One))]

\* Mutant: a paddle that went too far is put at the boundary.
Paddle_CollideAgainstTerrain_Clamps(p, postUpdatePosition) ==
    LET kMinTerrainOffset == TruncDiv(skPaddleSizeY, 10)
        kCollidesTop == 2 * (p.position.y + kMinTerrainOffset) > 2 * skWinSizeY - skPaddleSizeY
        kCollidesBottom == 2 * (p.position.y - kMinTerrainOffset) < skPaddleSizeY
    IN  IF kCollidesTop
        THEN [p EXCEPT !.position.y = skWinSizeY - TruncDiv(skPaddleSizeY, 2) - kMinTerrainOffset]
        ELSE IF kCollidesBottom
             THEN [p EXCEPT !.position.y = TruncDiv(skPaddleSizeY, 2) + kMinTerrainOffset]
             ELSE p

\* Paddle::CollideAgainstTerrain (inequalities doubled: size.y / 2 stays whole).
Paddle_CollideAgainstTerrain(p, postUpdatePosition) ==
    LET kMinTerrainOffset == TruncDiv(skPaddleSizeY, 10)
        kCollidesTop == 2 * (p.position.y + kMinTerrainOffset) > 2 * skWinSizeY - skPaddleSizeY
        kCollidesBottom == 2 * (p.position.y - kMinTerrainOffset) < skPaddleSizeY
    IN  IF kCollidesTop \/ kCollidesBottom
        THEN [p EXCEPT !.position = postUpdatePosition]
        ELSE p

\* Mutant: the paddle is moved and not tested against the terrain.
Paddle_Update_NoTerrainTest(p, delta) == GameObject_Update(p, delta)

Paddle_Update(p, delta) ==
    LET kPostUpdatePosition == p.position
    IN  Paddle_CollideAgainstTerrain(GameObject_Update(p, delta), kPostUpdatePosition)

Paddle_Reset(p) ==
    [p EXCEPT !.position = Vector2(@.x, TruncDiv(skWinSizeY, 2)),
              !.moveSpeed = 0,
              !.moveDirection = Vector2(0, 0)]

\* The paddle key handlers: a press moves the paddle at its default speed,
\* a release stops it.
Paddle_OnMoveUpPressed(p) ==
    [p EXCEPT !.moveDirection = Vector2(0, One), !.moveSpeed = Paddle_skDefaultMoveSpeed]
Paddle_OnMoveDownPressed(p) ==
    [p EXCEPT !.moveDirection = Vector2(0, -One), !.moveSpeed = Paddle_skDefaultMoveSpeed]
Paddle_OnMoveUpReleased(p) ==
    [p EXCEPT !.moveDirection = Vector2(0, 0)]
Paddle_OnMoveDownReleased(p) ==
    [p EXCEPT !.moveDirection = Vector2(0, 0)]

\* Ball::Reset: back to the centre of the terrain, at rest.
Ball_Reset(b) ==
    [b EXCEPT !.position = Vector2(TruncDiv(skWinSizeX, 2), TruncDiv(skWinSizeY, 2)),
              !.moveSpeed = 0,
              !.moveDirection = Vector2(0, 0)]

\* Ball::CollideWithTerrain: past the top or bottom edge, moveDirection.y is
\* reflected and the ball put back in bounds.
Ball_TouchesTerrain(b) ==
    \/ b.position.y + skBallRadius > skWinSizeY
    \/ b.position.y - skBallRadius < 0

Ball_CollideWithTerrain(b) ==
    CASE b.position.y + skBallRadius > skWinSizeY ->
            [b EXCEPT !.moveDirection = Vector2(@.x, -@.y),
                      !.position = Vector2(@.x, skWinSizeY - skBallRadius)]
      [] b.position.y - skBallRadius < 0 ->
            [b EXCEPT !.moveDirection = Vector2(@.x, -@.y),
                      !.position = Vector2(@.x, skBallRadius)]
      [] OTHER -> b

\* Ball::CollideWith: the overlap test of the ball's bounding square and the
\* paddle's rectangle (doubled), and what an overlap does to the ball.
Ball_Overlaps(b, p) ==
    /\ 2 * Abs(b.position.x - p.position.x) < 2 * skBallRadius + skPaddleSizeX
    /\ 2 * Abs(b.position.y - p.position.y) < 2 * skBallRadius + skPaddleSizeY

Ball_CollideWith(b, p) ==
    IF Ball_Overlaps(b, p)
    THEN [b EXCEPT !.moveDirection = Vector2(-@.x, @.y),
                   !.moveSpeed = @ + Ball_skMoveSpeedIncrement]
    ELSE b

\* Ball::GetTouchingSide: the side the ball has fully crossed.
Ball_GetTouchingSide(b) ==
    CASE b.position.x + skBallRadius < 0 -> "Left"
      [] b.position.x - skBallRadius > skWinSizeX -> "Right"
      [] OTHER -> "None"

(***************************************************************************)
(* The match: g = [ball, p1, p2, playing, scores, obs], obs recording what *)
(* the OnUpdate in progress has done.                                      *)
(***************************************************************************)
Did(g, step) == [g EXCEPT !.obs.steps = Append(@, step)]

ResetGameState(g) ==
    [Did(g, "ResetGameState") EXCEPT
        !.ball = Ball_Reset(@),
        !.p1 = Paddle_Reset(@),
        !.p2 = Paddle_Reset(@),
        !.playing = FALSE]

PositionPaddlesOnTerrain(g) ==
    [g EXCEPT !.p1.position = Vector2(kBorderOffset, @.y),
              !.p2.position = Vector2(skWinSizeX - kBorderOffset, @.y)]

\* Mutant: the point goes to the player on the side that lost it.
UpdateScores_SameSide(g, lostSide) ==
    {[Did(g, "UpdateScores") EXCEPT !.scores[SideOrdinal(lostSide) + 1] = @ + 1]}

\* UpdateScores: kScoreIndex = 1u - static_cast<unsigned>(lostSide). The set
\* of outcomes: one when the index is in the array; a store outside the array
\* leaves the two scores as they are.
UpdateScores(g, lostSide) ==
    LET kScoreIndex == UnsignedSub(1, SideOrdinal(lostSide))
    IN  IF kScoreIndex.hi = 0 /\ kScoreIndex.lo \in {0, 1}
        THEN {[Did(g, "UpdateScores") EXCEPT !.scores[kScoreIndex.lo + 1] = @ + 1]}
        ELSE {Did(g, "UpdateScores")}

\* Mutant: the point is given and the match goes on without a reset.
CheckBallSideCollision_NoReset(g) ==
    LET kSide == Ball_GetTouchingSide(g.ball)
        g1 == [Did(g, "GetTouchingSide") EXCEPT !.obs.side = kSide]
    IN  IF kSide # "None" THEN UpdateScores(g1, kSide) ELSE {g1}

\* Mutant: the point is given whatever side the check returned, None too.
CheckBallSideCollision_AnySide(g) ==
    LET kSide == Ball_GetTouchingSide(g.ball)
        g1 == [Did(g, "GetTouchingSide") EXCEPT !.obs.side = kSide]
    IN  {ResetGameState(g2) : g2 \in UpdateScores(g1, kSide)}

CheckBallSideCollision(g) ==
    LET kSide == Ball_GetTouchingSide(g.ball)
        g1 == [Did(g, "GetTouchingSide") EXCEPT !.obs.side = kSide]
    IN  IF kSide # "None"
        THEN {ResetGameState(g2) : g2 \in UpdateScores(g1, kSide)}
        ELSE {g1}

\* Mutant: sBall.CollideWith(sPaddle1) | sBall.CollideWith(sPaddle2), both
\* paddles are tested whatever the first test returns.
CollideWithPaddles_TestsBoth(g) ==
    LET g1 == Did(g, "CollideWith(sPaddle1)")
        g2 == IF Ball_Overlaps(g1.ball, g1.p1)
              THEN [g1 EXCEPT !.ball = Ball_CollideWith(@, g1.p1), !.obs.hit = 1]
              ELSE g1
        g3 == Did(g2, "CollideWith(sPaddle2)")
    IN  IF Ball_Overlaps(g3.ball, g3.p2)
        THEN [g3 EXCEPT !.ball = Ball_CollideWith(@, g3.p2), !.obs.hit = 2]
        ELSE g3

\* sBall.CollideWith(sPaddle1) || sBall.CollideWith(sPaddle2)
CollideWithPaddles(g) ==
    LET g1 == Did(g, "CollideWith(sPaddle1)")
    IN  IF Ball_Overlaps(g1.ball, g1.p1)
        THEN [g1 EXCEPT !.ball = Ball_CollideWith(@, g1.p1), !.obs.hit = 1]
        ELSE LET g2 == Did(g1, "CollideWith(sPaddle2)")
             IN  IF Ball_Overlaps(g2.ball, g2.p2)
                 THEN [g2 EXCEPT !.ball = Ball_CollideWith(@, g2.p2), !.obs.hit = 2]
                 ELSE g2

\* Mutant: the side check runs whether or not a paddle was hit.
OnUpdate_AlwaysChecksSides(g, delta) ==
    LET g0 == [g EXCEPT !.obs = [NoFrame EXCEPT !.delta = delta]]
        g1 == [Did(g0, "sBall.Update") EXCEPT !.ball = GameObject_Update(@, delta)]
        g2 == [Did(g1, "sPaddle1.Update") EXCEPT !.p1 = Paddle_Update(@, delta)]
        g3 == [Did(g2, "sPaddle2.Update") EXCEPT !.p2 = Paddle_Update(@, delta)]
        g4 == [Did(g3, "sBall.CollideWithTerrain") EXCEPT
                  !.obs.terrain = Ball_TouchesTerrain(g3.ball),
                  !.ball = Ball_CollideWithTerrain(@)]
        g5 == CollideWithPaddles(g4)
    IN  CheckBallSideCollision(g5)

OnUpdate(g, delta) ==
    LET g0 == [g EXCEPT !.obs = [NoFrame EXCEPT !.delta = delta]]
        g1 == [Did(g0, "sBall.Update") EXCEPT !.ball = GameObject_Update(@, delta)]
        g2 == [Did(g1, "sPaddle1.Update") EXCEPT !.p1 = Paddle_Update(@, delta)]
        g3 == [Did(g2, "sPaddle2.Update") EXCEPT !.p2 = Paddle_Update(@, delta)]
        g4 == [Did(g3, "sBall.CollideWithTerrain") EXCEPT
                  !.obs.terrain = Ball_TouchesTerrain(g3.ball),
                  !.ball = Ball_CollideWithTerrain(@)]
        g5 == CollideWithPaddles(g4)
        kCollides == g5.obs.hit # 0
    IN  IF ~kCollides THEN CheckBallSideCollision(g5) ELSE {g5}

\* Mutant: one random sign is used for both components.
LaunchBall_OneSign(b, rx, ry) ==
    LET b1 == [b EXCEPT !.moveSpeed = Ball_skDefaultMoveSpeed]
        b2 == [b1 EXCEPT !.moveDirection = Vector2(rx * One, rx * One)]
    IN  [b2 EXCEPT !.moveDirection = Normalize(@)]

\* LaunchBall, rx and ry being the two values RandomSignFloat returns.
LaunchBall(b, rx, ry) ==
    LET b1 == [b EXCEPT !.moveSpeed = Ball_skDefaultMoveSpeed]
        b2 == [b1 EXCEPT !.moveDirection = Vector2(rx * One, ry * One)]
    IN  [b2 EXCEPT !.moveDirection = Normalize(@)]

OnKeyDown(g, key) ==
    CASE key = "VK_UP" -> [g EXCEPT !.p2 = Paddle_OnMoveUpPressed(@)]
      [] key = "VK_DOWN" -> [g EXCEPT !.p2 = Paddle_OnMoveDownPressed(@)]
      [] key = "W" -> [g EXCEPT !.p1 = Paddle_OnMoveUpPressed(@)]
      [] key = "S" -> [g EXCEPT !.p1 = Paddle_OnMoveDownPressed(@)]
      [] OTHER -> g

OnKeyUp(g, key) ==
    CASE key = "VK_UP" -> [g EXCEPT !.p2 = Paddle_OnMoveUpReleased(@)]
      [] key = "VK_DOWN" -> [g EXCEPT !.p2 = Paddle_OnMoveDownReleased(@)]
      [] key = "W" -> [g EXCEPT !.p1 = Paddle_OnMoveUpReleased(@)]
      [] key = "S" -> [g EXCEPT !.p1 = Paddle_OnMoveDownReleased(@)]
      [] OTHER -> g

\* Mutant: a pressed launch key launches the ball whether or not the match is
\* being played.
OnKeyEvent_LaunchesAnyTime(g, key, pressed, rx, ry) ==
    IF pressed /\ key = "VK_SPACE"
    THEN [g EXCEPT !.playing = TRUE, !.ball = LaunchBall(@, rx, ry)]
    ELSE IF g.playing
         THEN IF pressed THEN OnKeyDown(g, key) ELSE OnKeyUp(g, key)
         ELSE g

OnKeyEvent(g, key, pressed, rx, ry) ==
    IF g.playing
    THEN IF pressed THEN OnKeyDown(g, key) ELSE OnKeyUp(g, key)
    ELSE IF pressed /\ key = "VK_SPACE"
         THEN [g EXCEPT !.playing = TRUE, !.ball = LaunchBall(@, rx, ry)]
         ELSE g

\* The match as the variables hold it, and the variables set from a match.
Game == [ball |-> sBall, p1 |-> sPaddle1, p2 |-> sPaddle2,
         playing |-> sPlaying, scores |-> sPlayerScores, obs |-> frame]

SetGame(g) ==
    /\ sBall' = g.ball
    /\ sPaddle1' = g.p1
    /\ sPaddle2' = g.p2
    /\ sPlaying' = g.playing
    /\ sPlayerScores' = g.scores
    /\ frame' = g.obs

(***************************************************************************)
(* The entry points and the frame loop.                                    *)
(***************************************************************************)
Keys == {"VK_SPACE", "VK_UP", "VK_DOWN", "W", "S", "VK_ESCAPE"}
Signs == {-1, 1}
\* The time between two readings of the clock, in milliseconds.
Deltas == {0, 400, 1000}

\* The outcomes of the leaf init functions during one Init: the set of those
\* that return false.
\* Nothing fails, one leaf init fails, or a leaf init and every later one.
Failures ==
    {{}} \cup {{LeafLifetimes[i].mInit} : i \in 1..Len(LeafLifetimes)}
         \cup {{LeafLifetimes[j].mInit : j \in i..Len(LeafLifetimes)} : i \in 1..Len(LeafLifetimes)}

\* Mutant: Init does not check that the game is not initialized yet.
InitAllowed_Always == TRUE

\* LEPONG_CHECK_OR_RETURN_VAL(!sInitialized, false)
InitAllowed == ~sInitialized

\* bool Init(), called.
InitCalled ==
    /\ op' = "Init"
    /\ IF InitAllowed
       THEN \E F \in Failures :
               LET r == TryInitItems(kGameLifetimes,
                                     [log |-> <<>>, up |-> up, fail |-> F, misuse |-> misuse])
               IN  /\ fail' = F
                   /\ log' = r.st.log
                   /\ up' = r.st.up
                   /\ misuse' = r.st.misuse
                   /\ sInitialized' = r.ok
                   /\ ret' = r.ok
       ELSE /\ ret' = FALSE
            /\ log' = <<>>
            /\ UNCHANGED <<fail, up, misuse, sInitialized>>
    /\ UNCHANGED <<lifetimes, sRunning, pc, gameVars, run, glVars>>

\* Init called by the owner of the game, outside Run.
lepong_Init == pc = "idle" /\ InitCalled

OnBeginRun(g) ==
    [PositionPaddlesOnTerrain(ResetGameState(g)) EXCEPT !.obs = NoFrame]

\* Mutant: Run does not check that it is not running already.
RunAllowed_IgnoresRunning == sInitialized

\* LEPONG_CHECK_OR_RETURN(sInitialized && !sRunning)
RunAllowed == sInitialized /\ ~sRunning

\* void Run(), called, up to the first test of the loop condition.
RunCalled ==
    /\ op' = "Run"
    /\ log' = <<>>
    /\ IF RunAllowed
       THEN /\ sRunning' = TRUE
            /\ SetGame(OnBeginRun(Game))
            /\ run' = [run EXCEPT !.finishes = 0, !.steps = <<>>]
            /\ pc' = "loop"
            /\ ret' = TRUE
       ELSE /\ ret' = FALSE
            /\ UNCHANGED <<sRunning, pc, sBall, sPaddle1, sPaddle2, sPlaying, sPlayerScores,
                           frame, run>>
    /\ UNCHANGED <<lifetimes, fail, up, misuse, sInitialized, sLastTime, frames, keys, glVars>>

\* Run called by the owner of the game, outside Run.
lepong_Run == pc = "idle" /\ RunCalled

\* OnKeyEvent, called back from Window::PollEvents of the next iteration.
KeyDelivered(key, pressed, maxFrames, maxKeys) ==
    /\ pc = "loop"
    /\ frames < maxFrames
    /\ keys < maxKeys
    /\ LET launches == ~sPlaying /\ pressed /\ key = "VK_SPACE"
       IN  \E rx \in IF launches THEN Signs ELSE {1}, ry \in IF launches THEN Signs ELSE {1} :
              SetGame(OnKeyEvent(Game, key, pressed, rx, ry))
    /\ keys' = keys + 1
    /\ UNCHANGED <<lifeVars, runVars, sLastTime, frames, run, glVars>>

KeyEventUpTo(maxFrames, maxKeys) ==
    \E key \in Keys, pressed \in BOOLEAN : KeyDelivered(key, pressed, maxFrames, maxKeys)

\* How many times a step occurs in a sequence of steps.
Count(steps, step) == Len(SelectSeq(steps, LAMBDA s : s = step))

\* Mutant: while (Window::PollEvents()) { ... }, the iteration that is told
\* to quit does not update and render any more.
RunLoopBody_QuitsAtOnce(polled) ==
    [running |-> polled,
     steps |-> IF polled
               THEN <<"Window::PollEvents", "GetTimeDelta", "OnUpdate", "OnRender">>
               ELSE <<"Window::PollEvents">>]

\* Mutant: the frame is rendered before it is updated.
RunLoopBody_RendersFirst(polled) ==
    [running |-> polled,
     steps |-> <<"Window::PollEvents", "GetTimeDelta", "OnRender", "OnUpdate">>]

\* The body of the loop of Run, Window::PollEvents returning polled: the
\* calls it makes, in order, and what it leaves in sRunning.
RunLoopBody(polled) ==
    [running |-> polled,
     steps |-> <<"Window::PollEvents", "GetTimeDelta", "OnUpdate", "OnRender">>]

\* The whole number nearest to n that a float holds: one of at most
\* FloatMantissaBits significant bits, the even one of two equally near.
\* A time is a whole number of ticks.
FloatUlp(n) ==
    LET m == Abs(n)
        e == CHOOSE k \in 0..7 : m < TwoTo24 * (2 ^ k) /\ (k = 0 \/ m >= TwoTo24 * (2 ^ (k - 1)))
    IN  2 ^ e

FloatRound(n) ==
    LET m == Abs(n)
        q == FloatUlp(n)
        lo == m - (m % q)
        r == m % q
        up_ == IF 2 * r > q THEN TRUE
               ELSE IF 2 * r < q THEN FALSE
               ELSE (lo \div q) % 2 = 1
        rounded == IF up_ THEN lo + q ELSE lo
    IN  IF n >= 0 THEN rounded ELSE -rounded

\* Mutant: the first reading only sets the baseline.
GetTimeDelta_ZeroesFirst(sLastTime_, kNow) ==
    [ret |-> IF sLastTime_ = 0 THEN 0 ELSE FloatRound(kNow - sLastTime_), sLastTime |-> kNow]

\* GetTimeDelta, Time::Get returning kNow: the float difference, and what is
\* left in the static sLastTime.
GetTimeDelta(sLastTime_, kNow) ==
    LET kTimeDelta == FloatRound(kNow - sLastTime_)
    IN  [ret |-> kTimeDelta, sLastTime |-> kNow]

\* One iteration of the loop of Run, and the test of the loop condition that
\* follows it, the clock reading one of readings. OnRender changes nothing
\* here.
FrameReading(maxFrames, readings) ==
    /\ pc = "loop"
    /\ frames < maxFrames
    /\ \E polled \in BOOLEAN, kNow \in readings :
          LET body == RunLoopBody(polled)
              timed == Count(body.steps, "GetTimeDelta") > 0
              cDelta == GetTimeDelta(sLastTime, kNow)
              updated == Count(body.steps, "OnUpdate") > 0
          IN  /\ sRunning' = body.running
              /\ sLastTime' = IF timed THEN cDelta.sLastTime ELSE sLastTime
              /\ \E g \in IF updated THEN OnUpdate(Game, cDelta.ret) ELSE {Game} : SetGame(g)
              /\ run' = [run EXCEPT !.polls = @ + Count(body.steps, "Window::PollEvents"),
                                    !.updates = @ + Count(body.steps, "OnUpdate"),
                                    !.renders = @ + Count(body.steps, "OnRender"),
                                    !.steps = body.steps,
                                    !.clock = IF timed THEN kNow ELSE @,
                                    !.deltas = IF updated THEN @ + cDelta.ret ELSE @]
              /\ pc' = IF body.running THEN "loop" ELSE "exit"
    /\ frames' = frames + 1
    /\ UNCHANGED <<lifeVars, sInitialized, keys, glVars>>

\* The iteration when the clock has advanced by one of Deltas since its last
\* reading.
FrameUpTo(maxFrames) == FrameReading(maxFrames, {run.clock + d : d \in Deltas})

\* The loop of Run is left: OnFinishRun, and Run returns.
OnFinishRun ==
    /\ pc = "exit"
    /\ run' = [run EXCEPT !.finishes = @ + 1]
    /\ pc' = "idle"
    /\ UNCHANGED <<lifeVars, sInitialized, sRunning, gameVars, glVars>>

\* LEPONG_CHECK_OR_RETURN(sInitialized && !sRunning)
CleanupAllowed == sInitialized /\ ~sRunning

\* void Cleanup(), called.
CleanupCalled ==
    /\ op' = "Cleanup"
    /\ IF CleanupAllowed
       THEN LET st == CleanupItems(kGameLifetimes,
                                   [log |-> <<>>, up |-> up, fail |-> fail, misuse |-> misuse])
            IN  /\ log' = st.log
                /\ up' = st.up
                /\ misuse' = st.misuse
                /\ sInitialized' = FALSE
                /\ ret' = TRUE
       ELSE /\ log' = <<>>
            /\ ret' = FALSE
            /\ UNCHANGED <<up, misuse, sInitialized>>
    /\ UNCHANGED <<lifetimes, fail, sRunning, pc, gameVars, run, glVars>>

\* Cleanup called by the owner of the game, outside Run.
lepong_Cleanup == pc = "idle" /\ CleanupCalled

\* An entry point called while Run is in its loop (from a callback of
\* Window::PollEvents, the only code that runs then).
CalledWhileRunning == pc = "loop" /\ (InitCalled \/ RunCalled \/ CleanupCalled)

(***************************************************************************)
(* SpecLife: the process from its start, Init, Run and Cleanup called in   *)
(* any order, with a short frame loop.                                     *)
(***************************************************************************)
LifeInit ==
    /\ lifetimes = kGameLifetimes
    /\ fail = {}
    /\ log = <<>>
    /\ up = {}
    /\ op = "none"
    /\ ret = TRUE
    /\ StaticInit

LifeKeyEvent == KeyEventUpTo(LifeFrames, LifeKeys)
LifeFrame == FrameUpTo(LifeFrames)

LifeNext ==
    \/ lepong_Init
    \/ lepong_Run
    \/ LifeKeyEvent
    \/ LifeFrame
    \/ OnFinishRun
    \/ lepong_Cleanup
    \/ CalledWhileRunning

SpecLife == LifeInit /\ [][LifeNext]_vars

(***************************************************************************)
(* Spec: the match, from the state a successful Init followed by Run       *)
(* enters the frame loop in; Run may be left and entered again.            *)
(***************************************************************************)
Init ==
    /\ lifetimes = kGameLifetimes
    /\ fail = {}
    /\ log = <<>>
    /\ up = LeafInits
    /\ op = "Run"
    /\ ret = TRUE
    /\ sInitialized = TRUE
    /\ sRunning = TRUE
    /\ pc = "loop"
    /\ sLastTime = 0
    /\ frames = 0
    /\ keys = 0
    /\ run = NoRun
    /\ misuse = {}
    /\ glObjects = NoObjects
    /\ sPaddleProgram = 0
    /\ sBallProgram = 0
    /\ call = NoCall
    /\ LET g == OnBeginRun([ball |-> GameObject, p1 |-> GameObject, p2 |-> GameObject,
                            playing |-> FALSE, scores |-> <<0, 0>>, obs |-> NoFrame])
       IN  /\ sBall = g.ball
           /\ sPaddle1 = g.p1
           /\ sPaddle2 = g.p2
           /\ sPlaying = g.playing
           /\ sPlayerScores = g.scores
           /\ frame = g.obs

KeyEvent == KeyEventUpTo(MaxFrames, MaxKeys)
Frame == FrameUpTo(MaxFrames)

Next ==
    \/ KeyEvent
    \/ Frame
    \/ OnFinishRun
    \/ lepong_Run

Spec == Init /\ [][Next]_vars

(***************************************************************************)
(* SpecItems: TryInitItems and CleanupItems on a generic table of N leaf   *)
(* items, any subset of whose init functions fails.                        *)
(***************************************************************************)
ItemsInit ==
    /\ \E n \in 1..MaxItems :
          /\ lifetimes = GenericLifetimes(n)
          /\ fail \in SUBSET {<<"Init", i>> : i \in 0..(n - 1)}
    /\ log = <<>>
    /\ up = {}
    /\ op = "none"
    /\ ret = TRUE
    /\ StaticInit

Items_TryInitItems ==
    /\ op = "none"
    /\ LET r == TryInitItems(lifetimes,
                             [log |-> <<>>, up |-> up, fail |-> fail, misuse |-> misuse])
       IN  /\ log' = r.st.log
           /\ up' = r.st.up
           /\ misuse' = r.st.misuse
           /\ ret' = r.ok
    /\ op' = "TryInitItems"
    /\ UNCHANGED <<lifetimes, fail, runVars, gameVars, run, glVars>>

Items_CleanupItems ==
    /\ op # "CleanupItems"
    /\ LET st == CleanupItems(lifetimes,
                              [log |-> <<>>, up |-> up, fail |-> fail, misuse |-> misuse])
       IN  /\ log' = st.log
           /\ up' = st.up
           /\ misuse' = st.misuse
    /\ op' = "CleanupItems"
    /\ ret' = TRUE
    /\ UNCHANGED <<lifetimes, fail, runVars, gameVars, run, glVars>>

ItemsNext == Items_TryInitItems \/ Items_CleanupItems

SpecItems == ItemsInit /\ [][ItemsNext]_vars

\* What a log holds: the init calls, the cleanup calls, of a generic table.
IsInitCall(f) == f[1] = "Init"
IsCleanupCall(f) == f[1] = "Cleanup"
InitCalls == SelectSeq(log, IsInitCall)
CleanupCalls == SelectSeq(log, IsCleanupCall)

NumItems == Len(lifetimes)
SomeItemFails == \E i \in 0..(NumItems - 1) : <<"Init", i>> \in fail
\* The index of the first item whose init returns false.
FirstFailing == CHOOSE k \in 0..(NumItems - 1) :
                    /\ <<"Init", k>> \in fail
                    /\ \A j \in 0..(k - 1) : <<"Init", j>> \notin fail

\* C1: when item k is the first whose init fails, TryInitItems cleans up
\* exactly the items k-1, k-2, ..., 0, each once, in that order, all of them
\* after the failing init call, and no item with index >= k.
C1_RollbackExactlyBelowK ==
    (op = "TryInitItems" /\ SomeItemFails) =>
        /\ CleanupCalls = [j \in 1..FirstFailing |-> <<"Cleanup", FirstFailing - j>>]
        /\ \A p, q \in 1..Len(log) :
              (IsCleanupCall(log[p]) /\ log[q] = <<"Init", FirstFailing>>) => q < p

C1_Witness ==
    /\ op = "TryInitItems"
    /\ SomeItemFails
    /\ FirstFailing = 3
    /\ NumItems = 5
    /\ fail = {<<"Init", 3>>, <<"Init", 4>>}
    /\ CleanupCalls = << <<"Cleanup", 2>>, <<"Cleanup", 1>>, <<"Cleanup", 0>> >>

\* C2: TryInitItems calls the init functions in ascending order, each at most
\* once, calls none after the first that fails, and then returns false.
C2_InitAscendingStopsAtFirstFailure ==
    (op = "TryInitItems" /\ SomeItemFails) =>
        /\ InitCalls = [j \in 1..(FirstFailing + 1) |-> <<"Init", j - 1>>]
        /\ ret = FALSE

C2_Witness ==
    /\ op = "TryInitItems"
    /\ SomeItemFails
    /\ FirstFailing = 1
    /\ NumItems = 4
    /\ InitCalls = << <<"Init", 0>>, <<"Init", 1>> >>
    /\ ret = FALSE

\* C3: when every init succeeds, TryInitItems calls init on all N items once,
\* calls no cleanup, and returns true.
C3_FullSuccessNoCleanup ==
    (op = "TryInitItems" /\ ~SomeItemFails) =>
        /\ log = [j \in 1..NumItems |-> <<"Init", j - 1>>]
        /\ ret = TRUE

C3_Witness ==
    /\ op = "TryInitItems"
    /\ fail = {}
    /\ NumItems = 4
    /\ Len(log) = 4
    /\ ret = TRUE

\* C4: CleanupItems calls the cleanup of every item once, in the order
\* N-1, ..., 0, whatever the state of the items, and calls no init.
C4_CleanupItemsAllReverse ==
    op = "CleanupItems" =>
        log = [j \in 1..NumItems |-> <<"Cleanup", NumItems - j>>]

C4_Witness ==
    /\ op = "CleanupItems"
    /\ NumItems = 4
    /\ fail = {<<"Init", 2>>}
    /\ log = << <<"Cleanup", 3>>, <<"Cleanup", 2>>, <<"Cleanup", 1>>, <<"Cleanup", 0>> >>

(***************************************************************************)
(* The lifecycle tree.                                                     *)
(***************************************************************************)
\* The leaf init functions in the order a successful Init calls them, and the
\* leaf cleanup functions in the same order.
InitOrder ==
    << Fn("Log::Init"), Fn("Window::Init"), Fn("Graphics::Init"), Fn("gl::Init"),
       Fn("Time::Init"), Fn("InitGameWindow"), Fn("InitContext"),
       Fn("InitPaddleProgram"), Fn("InitBallProgram"), Fn("InitQuad"),
       Fn("InitTexturedQuad") >>

CleanupInInitOrder ==
    << Fn("Log::Cleanup"), Fn("Window::Cleanup"), Fn("Graphics::Cleanup"), Fn("gl::Cleanup"),
       Fn("Time::Cleanup"), Fn("CleanupGameWindow"), Fn("CleanupContext"),
       Fn("CleanupPaddleProgram"), Fn("CleanupBallProgram"), Fn("CleanupQuad"),
       Fn("CleanupTexturedQuad") >>

NumLeaves == Len(InitOrder)

\* The position in InitOrder of the first leaf init that fails.
FirstFailingLeaf ==
    CHOOSE k \in 1..NumLeaves :
        /\ InitOrder[k] \in fail
        /\ \A j \in 1..(k - 1) : InitOrder[j] \notin fail

\* The calls of an Init whose k-th leaf init fails: the first k leaf inits,
\* then the cleanups of the k-1 that succeeded, last first.
RollbackLog(k) ==
    [j \in 1..(2 * k - 1) |->
        IF j <= k THEN InitOrder[j] ELSE CleanupInInitOrder[2 * k - j]]

\* C5: when a leaf init fails during Init, Init returns false having cleaned
\* up every leaf that was initialized, once each, in the reverse of the order
\* of their inits, and no other leaf; nothing stays initialized, and the frame
\* loop never runs in a process that is not fully initialized (a Run called
\* then returns at once).
C5_FailedInitRollsBackEverything ==
    /\ (op = "Init" /\ fail # {} /\ log # <<>>) =>
          /\ ret = FALSE
          /\ ~sInitialized
          /\ log = RollbackLog(FirstFailingLeaf)
          /\ up = {}
    /\ pc # "idle" => (sInitialized /\ up = {InitOrder[j] : j \in 1..NumLeaves})
    /\ (op = "Run" /\ ~sInitialized) => (pc = "idle" /\ ~sRunning /\ ret = FALSE)

C5_Witness ==
    /\ op = "Init"
    /\ fail = {Fn("InitQuad")}
    /\ ret = FALSE
    /\ Len(log) = 19
    /\ log[10] = Fn("InitQuad")
    /\ log[11] = Fn("CleanupBallProgram")
    /\ log[19] = Fn("Log::Cleanup")

\* C6: after a fully successful Init (which calls the leaf inits in InitOrder),
\* Cleanup calls every leaf cleanup once, in the reverse of that order, and
\* leaves the process not initialized.
C6_CleanupReversesInit ==
    /\ (op = "Init" /\ ret) => (log = InitOrder /\ sInitialized)
    /\ (op = "Cleanup" /\ ret) =>
          /\ log = << Fn("CleanupTexturedQuad"), Fn("CleanupQuad"), Fn("CleanupBallProgram"),
                      Fn("CleanupPaddleProgram"), Fn("CleanupContext"), Fn("CleanupGameWindow"),
                      Fn("Time::Cleanup"), Fn("gl::Cleanup"), Fn("Graphics::Cleanup"),
                      Fn("Window::Cleanup"), Fn("Log::Cleanup") >>
          /\ ~sInitialized
          /\ up = {}

C6_Witness ==
    /\ op = "Cleanup"
    /\ ret
    /\ Len(log) = 11
    /\ ~sInitialized
    /\ frames = 1

(***************************************************************************)
(* The match.                                                              *)
(***************************************************************************)
Ran(step) == \E i \in 1..Len(frame.steps) : frame.steps[i] = step
RanAfter(step) == \E i \in 1..Len(frame'.steps) : frame'.steps[i] = step
TimesRanAfter(step) == Cardinality({i \in 1..Len(frame'.steps) : frame'.steps[i] = step})
ScoreSum == sPlayerScores[1] + sPlayerScores[2]
BallAtRest ==
    [position |-> Vector2(640, 360), moveDirection |-> Vector2(0, 0), moveSpeed |-> 0]
PaddleAtRest(p) ==
    /\ p.position.y = 360
    /\ p.moveSpeed = 0
    /\ p.moveDirection = Vector2(0, 0)
IsOnUpdate == frames' = frames + 1

\* C7 as stated: in a frame in which a paddle bounce or a terrain bounce is
\* resolved, the side check is not evaluated.
C7_AsStated ==
    (frame.hit # 0 \/ frame.terrain) => ~Ran("GetTouchingSide")

\* C7, amended: in a frame in which a paddle bounce is resolved the side check
\* is not evaluated, and the scores and the playing flag stay as they are and
\* no reset runs; in every other frame, a terrain bounce or not, the side
\* check is evaluated.
C7_PaddleBounceSkipsSideCheck ==
    /\ [](frame.steps # <<>> => (Ran("GetTouchingSide") <=> frame.hit = 0))
    /\ [][(IsOnUpdate /\ frame'.hit # 0) =>
             /\ sPlayerScores' = sPlayerScores
             /\ sPlaying' = sPlaying
             /\ ~RanAfter("UpdateScores")
             /\ ~RanAfter("ResetGameState")]_vars

C7_Witness ==
    /\ frame.hit = 2
    /\ ~Ran("GetTouchingSide")
    /\ sPlaying
    /\ sBall.moveSpeed = Ball_skDefaultMoveSpeed + Ball_skMoveSpeedIncrement
    /\ sBall.moveDirection.x < 0

\* C8: a frame that starts in Playing, resolves no paddle bounce and whose
\* side check returns Right (Left) adds exactly 1 to the left (right)
\* player's score and nothing to the other's, and ends Idle, the ball reset
\* and both paddles at y = winHeight / 2, at rest.
C8_SideCrossingScoresAndResets ==
    [][(IsOnUpdate /\ sPlaying /\ frame'.hit = 0 /\ frame'.side # "None") =>
          /\ frame'.side = "Right" =>
                sPlayerScores' = <<sPlayerScores[1] + 1, sPlayerScores[2]>>
          /\ frame'.side = "Left" =>
                sPlayerScores' = <<sPlayerScores[1], sPlayerScores[2] + 1>>
          /\ ~sPlaying'
          /\ sBall' = BallAtRest
          /\ PaddleAtRest(sPaddle1')
          /\ PaddleAtRest(sPaddle2')]_vars

C8_Witness ==
    /\ frame.side = "Right"
    /\ frame.hit = 0
    /\ sPlayerScores = <<1, 0>>
    /\ ~sPlaying
    /\ sBall = BallAtRest
    /\ keys = 2

\* C9: no step lowers a score; a step raises the sum of the scores by 0 or 1,
\* and by 1 only in an OnUpdate whose side check returned Left or Right, which
\* then runs UpdateScores once and, after it and last in the frame, one
\* ResetGameState.
C9_ScoresGrowByOnePerCrossing ==
    [][/\ sPlayerScores'[1] >= sPlayerScores[1]
       /\ sPlayerScores'[2] >= sPlayerScores[2]
       /\ ScoreSum' - ScoreSum \in {0, 1}
       /\ ScoreSum' # ScoreSum =>
             /\ IsOnUpdate
             /\ frame'.side # "None"
             /\ TimesRanAfter("UpdateScores") = 1
             /\ TimesRanAfter("ResetGameState") = 1
             /\ frame'.steps[Len(frame'.steps)] = "ResetGameState"
             /\ frame'.steps[Len(frame'.steps) - 1] = "UpdateScores"
             /\ ~sPlaying']_vars

C9_Witness ==
    /\ sPlayerScores = <<1, 1>>
    /\ Ran("UpdateScores")
    /\ Ran("ResetGameState")
    /\ frames = 4

\* C10: a pressed launch key delivered while Idle makes the state Playing and
\* sets the ball's speed to the default and its direction to a diagonal, both
\* components non-zero and of one magnitude; each of the four sign
\* combinations is a possible outcome.
LaunchKey == KeyDelivered("VK_SPACE", TRUE, MaxFrames, MaxKeys)

C10_LaunchFromIdle ==
    /\ [][(~sPlaying /\ LaunchKey) =>
             /\ sPlaying'
             /\ sBall'.moveSpeed = Ball_skDefaultMoveSpeed
             /\ sBall'.moveDirection.x # 0
             /\ Abs(sBall'.moveDirection.x) = Abs(sBall'.moveDirection.y)
             /\ sBall'.position = sBall.position]_vars
    /\ []((~sPlaying /\ ENABLED LaunchKey) =>
             \A sx \in Signs, sy \in Signs :
                ENABLED (LaunchKey /\ sBall'.moveDirection = Vector2(707 * sx, 707 * sy)))

C10_Witness ==
    /\ sPlaying
    /\ keys = 1
    /\ frames = 0
    /\ sBall.moveSpeed = Ball_skDefaultMoveSpeed
    /\ sBall.moveDirection = Vector2(-707, 707)

(***************************************************************************)
(* SpecFair: Spec, with the control flow of Run that follows the loop:     *)
(* once the loop condition is found false, OnFinishRun is called and Run   *)
(* returns.                                                                *)
(***************************************************************************)
SpecFair == Spec /\ WF_vars(OnFinishRun)

\* C11: every iteration of the loop of Run polls the events once, updates
\* once and renders once, also the iteration whose poll returns false; that
\* iteration leaves sRunning false and the loop at its exit, from where no
\* further poll is made, OnFinishRun runs once and Run returns (it does
\* return); so PollEvents, OnUpdate and OnRender have been called equally
\* often.
C11_PollOncePerIteration ==
    /\ [][/\ IsOnUpdate =>
                /\ run'.polls = run.polls + 1
                /\ run'.updates = run.updates + 1
                /\ run'.renders = run.renders + 1
                /\ run'.finishes = 0
                /\ pc' = IF sRunning' THEN "loop" ELSE "exit"
          /\ pc = "exit" =>
                /\ ~sRunning
                /\ run.finishes = 0
                /\ run'.polls = run.polls
                /\ run'.finishes = 1
                /\ ~sRunning'
                /\ pc' = "idle"
          /\ run'.polls = run'.updates
          /\ run'.polls = run'.renders]_vars
    /\ (pc = "exit") ~> (pc = "idle" /\ run.finishes = 1 /\ ~sRunning)

C11_Witness ==
    /\ pc = "idle"
    /\ ~sRunning
    /\ run.finishes = 1
    /\ run.polls = 3
    /\ run.updates = 3
    /\ run.renders = 3
    /\ Count(run.steps, "OnUpdate") = 1

(***************************************************************************)
(* SpecPaddle: one paddle, as Run places it before the first frame, driven *)
(* by any sequence of changes of its motion and of calls of Paddle::Update *)
(* and Paddle::Reset.                                                      *)
(***************************************************************************)
\* Unit-or-zero move directions (thousandths), speeds and time deltas.
PaddleDirections ==
    {Vector2(0, 0), Vector2(0, One), Vector2(0, -One), Vector2(-707, 707)}
PaddleSpeeds == {0, Paddle_skDefaultMoveSpeed, 3 * Paddle_skDefaultMoveSpeed}
PaddleDeltas == {0, 16, 400, 900}

PaddleInit ==
    /\ lifetimes = kGameLifetimes
    /\ fail = {}
    /\ log = <<>>
    /\ up = LeafInits
    /\ op = "Run"
    /\ ret = TRUE
    /\ sInitialized = TRUE
    /\ sRunning = TRUE
    /\ pc = "loop"
    /\ sPlaying = FALSE
    /\ sPlayerScores = <<0, 0>>
    /\ sBall = BallAtRest
    /\ sPaddle1 = Paddle_Reset([GameObject EXCEPT !.position.x = kBorderOffset])
    /\ sPaddle2 = Paddle_Reset([GameObject EXCEPT !.position.x = skWinSizeX - kBorderOffset])
    /\ sLastTime = 0
    /\ frame = NoFrame
    /\ frames = 0
    /\ keys = 0
    /\ run = NoRun
    /\ misuse = {}
    /\ glObjects = NoObjects
    /\ sPaddleProgram = 0
    /\ sBallProgram = 0
    /\ call = NoCall

\* moveDirection and moveSpeed are assigned (they are public fields).
Paddle_SetMotion ==
    /\ \E d \in PaddleDirections, s \in PaddleSpeeds :
          sPaddle1' = [sPaddle1 EXCEPT !.moveDirection = d, !.moveSpeed = s]
    /\ call' = [fn |-> "SetMotion"]
    /\ UNCHANGED <<lifeVars, runVars, sPlaying, sPlayerScores, sBall, sPaddle2, sLastTime,
                   frame, frames, keys, run, glObjects, sPaddleProgram, sBallProgram>>

\* sPaddle1.Update(delta, skWinSize); the call is recorded with the position
\* GameObject::Update moved the paddle to.
Paddle_UpdateCalled ==
    /\ frames < MaxPaddleCalls
    /\ \E delta \in PaddleDeltas :
          /\ sPaddle1' = Paddle_Update(sPaddle1, delta)
          /\ call' = [fn |-> "Update", delta |-> delta,
                      translated |-> GameObject_Update(sPaddle1, delta).position]
    /\ frames' = frames + 1
    /\ UNCHANGED <<lifeVars, runVars, sPlaying, sPlayerScores, sBall, sPaddle2, sLastTime,
                   frame, keys, run, glObjects, sPaddleProgram, sBallProgram>>

\* sPaddle1.Reset(skWinSize)
Paddle_ResetCalled ==
    /\ sPaddle1' = Paddle_Reset(sPaddle1)
    /\ call' = [fn |-> "Reset"]
    /\ UNCHANGED <<lifeVars, runVars, sPlaying, sPlayerScores, sBall, sPaddle2, sLastTime,
                   frame, frames, keys, run, glObjects, sPaddleProgram, sBallProgram>>

PaddleNext == Paddle_SetMotion \/ Paddle_UpdateCalled \/ Paddle_ResetCalled

SpecPaddle == PaddleInit /\ [][PaddleNext]_vars

\* C12: whatever the deltas, directions and speeds of the updates since the
\* reset, the paddle's rectangle stays between the bottom (0) and the top
\* (skWinSize.y) of the terrain, and a tenth of its height away from both
\* (inequalities doubled and multiplied by ten to stay whole).
C12_PaddleStaysInTerrain ==
    /\ 2 * sPaddle1.position.y - skPaddleSizeY >= 0
    /\ 2 * sPaddle1.position.y + skPaddleSizeY <= 2 * skWinSizeY
    /\ 10 * (2 * sPaddle1.position.y - skPaddleSizeY) >= 2 * skPaddleSizeY
    /\ 10 * (2 * sPaddle1.position.y + skPaddleSizeY) <= 10 * 2 * skWinSizeY - 2 * skPaddleSizeY

\* The paddle has moved up to the highest position it is let into, and an
\* update that would have taken it further was rejected.
C12_Witness ==
    /\ call.fn = "Update"
    /\ call.translated.y > sPaddle1.position.y
    /\ 2 * sPaddle1.position.y + skPaddleSizeY + 2 * TruncDiv(skPaddleSizeY, 10) = 2 * skWinSizeY
    /\ sPaddle1.moveDirection = Vector2(0, One)
    /\ sPaddle1.moveSpeed = Paddle_skDefaultMoveSpeed

\* The centre of a paddle at height y is within a tenth of the paddle's
\* height of the top or of the bottom edge of the terrain.
NearTerrainEdge(y) ==
    \/ 10 * Abs(skWinSizeY - y) <= skPaddleSizeY
    \/ 10 * Abs(y) <= skPaddleSizeY

\* C13: a Paddle::Update whose translated position has the paddle's centre
\* within size.y * 0.1 of the top or bottom edge of the terrain leaves the
\* position (both coordinates) as it was before the call: the move is
\* rejected, the paddle is not put at the boundary.
C13_RejectedNotClamped ==
    [][(frames' = frames + 1 /\ NearTerrainEdge(call'.translated.y)) =>
          sPaddle1'.position = sPaddle1.position]_vars

\* An update that would have taken the paddle's centre onto the top edge
\* (600 + 300 * 0.4 = 720) has left it at 600.
C13_Witness ==
    /\ call.fn = "Update"
    /\ call.translated.y = skWinSizeY
    /\ NearTerrainEdge(call.translated.y)
    /\ call.delta = 400
    /\ sPaddle1.moveDirection = Vector2(0, One)
    /\ sPaddle1.moveSpeed = Paddle_skDefaultMoveSpeed
    /\ sPaddle1.position = Vector2(kBorderOffset, skWinSizeY - 120)

\* The place of a step in the frame a step of the model ends with (0: none).
PlaceAfter(step) ==
    IF RanAfter(step)
    THEN CHOOSE i \in 1..Len(frame'.steps) : frame'.steps[i] = step
    ELSE 0

\* C14: in every frame the ball is tested against paddle 1 once and first,
\* against paddle 2 at most once, after paddle 1 and only if paddle 1 was not
\* hit; a frame that resolves a collision negates the ball's x direction
\* once and adds one increment to its speed, and a frame that resolves none
\* (and does not reset the match) leaves both as they were.
C14_OnePaddleBouncePerFrame ==
    [][IsOnUpdate =>
          /\ frame'.hit \in {0, 1, 2}
          /\ TimesRanAfter("CollideWith(sPaddle1)") = 1
          /\ TimesRanAfter("CollideWith(sPaddle2)") <= 1
          /\ RanAfter("CollideWith(sPaddle2)") =>
                PlaceAfter("CollideWith(sPaddle1)") < PlaceAfter("CollideWith(sPaddle2)")
          /\ frame'.hit = 1 => ~RanAfter("CollideWith(sPaddle2)")
          /\ frame'.hit = 0 => RanAfter("CollideWith(sPaddle2)")
          /\ frame'.hit # 0 =>
                /\ sBall'.moveDirection.x = -sBall.moveDirection.x
                /\ sBall'.moveSpeed = sBall.moveSpeed + Ball_skMoveSpeedIncrement
          /\ (frame'.hit = 0 /\ ~RanAfter("ResetGameState")) =>
                /\ sBall'.moveDirection.x = sBall.moveDirection.x
                /\ sBall'.moveSpeed = sBall.moveSpeed]_vars

\* Paddle 1 was hit: the ball, launched to the left, now moves to the right
\* and faster, and paddle 2 was not tested.
C14_Witness ==
    /\ frame.hit = 1
    /\ ~Ran("CollideWith(sPaddle2)")
    /\ sPlaying
    /\ sBall.moveSpeed = Ball_skDefaultMoveSpeed + Ball_skMoveSpeedIncrement
    /\ sBall.moveDirection.x > 0

(***************************************************************************)
(* The shader programs. glObjects holds the OpenGL objects alive; the gl   *)
(* functions hand out fresh non-zero handles, and deleting handle 0 does   *)
(* nothing. A function returns [ret, gl]: its result and the objects left. *)
(***************************************************************************)
gl_CreateShader(o) ==
    [ret |-> o.next, gl |-> [o EXCEPT !.shaders = @ \cup {o.next}, !.next = @ + 1]]

gl_DeleteShader(o, shader) == [o EXCEPT !.shaders = @ \ {shader}]

gl_CreateProgram(o) ==
    [ret |-> o.next, gl |-> [o EXCEPT !.programs = @ \cup {o.next}, !.next = @ + 1]]

gl_DeleteProgram(o, program) == [o EXCEPT !.programs = @ \ {program}]

\* Graphics::CreateShaderFromSource; valid: source is not null and type is a
\* shader type, compiles: what the compile status will be.
CreateShaderFromSource(o, valid, compiles) ==
    IF ~valid
    THEN [ret |-> 0, gl |-> o]
    ELSE LET shader == gl_CreateShader(o)
             kCompileFailed == ~compiles
         IN  IF kCompileFailed
             THEN [ret |-> 0, gl |-> gl_DeleteShader(shader.gl, shader.ret)]
             ELSE shader

\* Mutant: a program that failed to link is returned as it is.
CreateProgramFromShaders_ReturnsUnlinked(o, vert, frag, links) ==
    IF ~(vert # 0 /\ frag # 0)
    THEN [ret |-> 0, gl |-> o]
    ELSE gl_CreateProgram(o)

\* Graphics::CreateProgramFromShaders; links: what the link status will be.
CreateProgramFromShaders(o, vert, frag, links) ==
    IF ~(vert # 0 /\ frag # 0)
    THEN [ret |-> 0, gl |-> o]
    ELSE LET program == gl_CreateProgram(o)
             kLinkFailed == ~links
         IN  IF kLinkFailed
             THEN [ret |-> 0, gl |-> gl_DeleteProgram(program.gl, program.ret)]
             ELSE program

\* Mutant: the shaders are deleted only once the program exists.
CreateProgramWithWinSizeUniform_KeepsShaders(o, vertex, fragment, links) ==
    LET kProgram == CreateProgramFromShaders(o, vertex, fragment, links)
    IN  IF kProgram.ret # 0
        THEN [ret |-> kProgram.ret,
              gl |-> gl_DeleteShader(gl_DeleteShader(kProgram.gl, vertex), fragment)]
        ELSE kProgram

\* CreateProgramWithWinSizeUniform (LoadWinSizeUniform creates and deletes
\* nothing).
CreateProgramWithWinSizeUniform(o, vertex, fragment, links) ==
    LET kProgram == CreateProgramFromShaders(o, vertex, fragment, links)
    IN  [ret |-> kProgram.ret,
         gl |-> gl_DeleteShader(gl_DeleteShader(kProgram.gl, vertex), fragment)]

\* sProgram = CreateProgramWithWinSizeUniform(Make...VertexShader(),
\* Make...FragmentShader()); return sProgram;  The two arguments are
\* evaluated in either order (vertexFirst). The handles the shader functions
\* returned are kept for the record of the call.
InitProgram(o, vCompiles, fCompiles, links, vertexFirst) ==
    LET first == CreateShaderFromSource(o, TRUE, IF vertexFirst THEN vCompiles ELSE fCompiles)
        second == CreateShaderFromSource(first.gl, TRUE,
                                         IF vertexFirst THEN fCompiles ELSE vCompiles)
        vertex == IF vertexFirst THEN first.ret ELSE second.ret
        fragment == IF vertexFirst THEN second.ret ELSE first.ret
        program == CreateProgramWithWinSizeUniform(second.gl, vertex, fragment, links)
    IN  [ret |-> program.ret # 0, program |-> program.ret, gl |-> program.gl,
         vertex |-> vertex, fragment |-> fragment]

(***************************************************************************)
(* SpecPrograms: the two shader programs, initialized and cleaned up in    *)
(* turn any number of times, every compilation and link succeeding or      *)
(* failing.                                                                *)
(***************************************************************************)
\* A call of an Init...Program function: the program is stored in the static
\* and returned as a bool; the call is recorded with the outcomes it met, the
\* handles its parts returned and the next free handle when it started.
InitProgramCalled(fn, r, vCompiles, fCompiles, links) ==
    /\ glObjects' = r.gl
    /\ call' = [fn |-> fn, vCompiles |-> vCompiles, fCompiles |-> fCompiles, links |-> links,
                vertex |-> r.vertex, fragment |-> r.fragment, program |-> r.program,
                ret |-> r.ret, first |-> glObjects.next]

\* bool InitPaddleProgram()
InitPaddleProgram ==
    /\ sPaddleProgram \notin glObjects.programs
    /\ glObjects.next <= MaxHandles
    /\ \E vCompiles \in BOOLEAN, fCompiles \in BOOLEAN, links \in BOOLEAN,
          vertexFirst \in BOOLEAN :
          LET r == InitProgram(glObjects, vCompiles, fCompiles, links, vertexFirst)
          IN  /\ sPaddleProgram' = r.program
              /\ InitProgramCalled("InitPaddleProgram", r, vCompiles, fCompiles, links)
    /\ UNCHANGED <<lifeVars, runVars, gameVars, run, sBallProgram>>

\* void CleanupPaddleProgram()
CleanupPaddleProgram ==
    /\ sPaddleProgram \in glObjects.programs
    /\ glObjects' = gl_DeleteProgram(glObjects, sPaddleProgram)
    /\ call' = [fn |-> "CleanupPaddleProgram"]
    /\ UNCHANGED <<lifeVars, runVars, gameVars, run, sPaddleProgram, sBallProgram>>

\* bool InitBallProgram()
InitBallProgram ==
    /\ sBallProgram \notin glObjects.programs
    /\ glObjects.next <= MaxHandles
    /\ \E vCompiles \in BOOLEAN, fCompiles \in BOOLEAN, links \in BOOLEAN,
          vertexFirst \in BOOLEAN :
          LET r == InitProgram(glObjects, vCompiles, fCompiles, links, vertexFirst)
          IN  /\ sBallProgram' = r.program
              /\ InitProgramCalled("InitBallProgram", r, vCompiles, fCompiles, links)
    /\ UNCHANGED <<lifeVars, runVars, gameVars, run, sPaddleProgram>>

\* void CleanupBallProgram()
CleanupBallProgram ==
    /\ sBallProgram \in glObjects.programs
    /\ glObjects' = gl_DeleteProgram(glObjects, sBallProgram)
    /\ call' = [fn |-> "CleanupBallProgram"]
    /\ UNCHANGED <<lifeVars, runVars, gameVars, run, sPaddleProgram, sBallProgram>>

ProgramsNext ==
    \/ InitPaddleProgram
    \/ CleanupPaddleProgram
    \/ InitBallProgram
    \/ CleanupBallProgram

SpecPrograms == LifeInit /\ [][ProgramsNext]_vars

IsInitProgramCall == call.fn \in {"InitPaddleProgram", "InitBallProgram"}
StoredProgram == IF call.fn = "InitPaddleProgram" THEN sPaddleProgram ELSE sBallProgram

\* C15: CreateShaderFromSource returns 0 exactly when its arguments are
\* invalid or the compilation fails; CreateProgramFromShaders returns 0
\* exactly when a shader handle is 0 or the link fails; and an
\* Init...Program call, whatever the two compilations and the link did,
\* stores the handle of the program and returns false exactly when it is 0.
C15_ZeroIsFailure ==
    /\ \A valid \in BOOLEAN, compiles \in BOOLEAN :
          (CreateShaderFromSource(glObjects, valid, compiles).ret = 0) <=> ~(valid /\ compiles)
    /\ \A vert \in 0..2, frag \in 0..2, links \in BOOLEAN :
          (CreateProgramFromShaders(glObjects, vert, frag, links).ret = 0)
             <=> (vert = 0 \/ frag = 0 \/ ~links)
    /\ IsInitProgramCall =>
          /\ (call.vertex = 0) <=> ~call.vCompiles
          /\ (call.fragment = 0) <=> ~call.fCompiles
          /\ (call.program = 0) <=> (call.vertex = 0 \/ call.fragment = 0 \/ ~call.links)
          /\ StoredProgram = call.program
          /\ call.ret <=> call.program # 0

\* Both shaders compiled and the link failed: InitBallProgram returned false.
C15_Witness ==
    /\ call.fn = "InitBallProgram"
    /\ call.vCompiles
    /\ call.fCompiles
    /\ ~call.links
    /\ call.vertex # 0
    /\ call.fragment # 0
    /\ sBallProgram = 0
    /\ ~call.ret

\* The objects created during the last call: the handles handed out since it
\* started.
CreatedInCall == call.first..(glObjects.next - 1)

\* C20: when an Init...Program call has returned, whatever the two
\* compilations and the link did, none of the shader objects created during
\* the call is alive, and of the program objects created during the call the
\* one returned is alive if the call returned true and none is if it
\* returned false.
C20_NothingLeaked ==
    IsInitProgramCall =>
        /\ CreatedInCall \cap glObjects.shaders = {}
        /\ glObjects.shaders = {}
        /\ CreatedInCall \cap glObjects.programs = IF call.ret THEN {call.program} ELSE {}
        /\ call.ret <=> StoredProgram \in glObjects.programs

\* The vertex shader compiled and the fragment shader did not: no program
\* was created, and the vertex shader created in the call is gone.
C20_Witness ==
    /\ call.fn = "InitPaddleProgram"
    /\ call.vCompiles
    /\ ~call.fCompiles
    /\ call.vertex \in CreatedInCall
    /\ call.vertex \notin glObjects.shaders
    /\ CreatedInCall \cap glObjects.programs = {}
    /\ ~call.ret

\* The steps every OnUpdate starts with, and the steps that may follow them:
\* none after a hit of paddle 1, the test of paddle 2 alone after a hit of
\* paddle 2, else the side check, alone or with the score and the reset.
UpdateHead ==
    <<"sBall.Update", "sPaddle1.Update", "sPaddle2.Update", "sBall.CollideWithTerrain",
      "CollideWith(sPaddle1)">>
UpdateTail(hit, side) ==
    IF hit = 1 THEN <<>>
    ELSE IF hit = 2 THEN <<"CollideWith(sPaddle2)">>
    ELSE IF side = "None" THEN <<"CollideWith(sPaddle2)", "GetTouchingSide">>
    ELSE <<"CollideWith(sPaddle2)", "GetTouchingSide", "UpdateScores", "ResetGameState">>

\* C16: every iteration of the loop calls, once each and in this order,
\* PollEvents, GetTimeDelta, OnUpdate and OnRender, and OnUpdate in it, once
\* each and in this order, the ball's update, paddle 1's, paddle 2's, the
\* ball-terrain collision, the ball-paddle test and, only if no paddle was
\* hit, the side check, followed by the score and the reset if a side was
\* crossed; so the terrain collision precedes the side check and the frame is
\* rendered after its update.
C16_FixedOrderOfAFrame ==
    [][IsOnUpdate =>
          /\ run'.steps = <<"Window::PollEvents", "GetTimeDelta", "OnUpdate", "OnRender">>
          /\ frame'.steps = UpdateHead \o UpdateTail(frame'.hit, frame'.side)]_vars

\* A frame that went through every step: the ball crossed a side.
C16_Witness ==
    /\ run.steps = <<"Window::PollEvents", "GetTimeDelta", "OnUpdate", "OnRender">>
    /\ frame.steps = UpdateHead \o <<"CollideWith(sPaddle2)", "GetTouchingSide",
                                     "UpdateScores", "ResetGameState">>
    /\ frame.side = "Left"
    /\ sPlayerScores = <<0, 1>>

\* C17: sPlaying becomes true only in the delivery of a pressed launch key
\* while Idle, and false only in a frame that scores and resets or when Run
\* is entered (OnBeginRun); while Idle a key release or the press of any
\* other key changes neither sPlaying nor the ball, the paddles or the
\* scores; while Playing a pressed launch key changes neither sPlaying nor
\* the ball.
C17_PlayingChangesTwoWays ==
    [][/\ (~sPlaying /\ sPlaying') => LaunchKey
       /\ (sPlaying /\ ~sPlaying') =>
             \/ IsOnUpdate /\ RanAfter("UpdateScores") /\ RanAfter("ResetGameState")
             \/ lepong_Run
       /\ \A key \in Keys, pressed \in BOOLEAN :
             (/\ ~sPlaying
              /\ ~(pressed /\ key = "VK_SPACE")
              /\ KeyDelivered(key, pressed, MaxFrames, MaxKeys)) =>
                UNCHANGED <<sPlaying, sBall, sPaddle1, sPaddle2, sPlayerScores>>
       /\ (sPlaying /\ LaunchKey) =>
             /\ sPlaying'
             /\ sBall' = sBall]_vars

\* Two key events were delivered while Idle, none of them a pressed launch
\* key: the match is still Idle and nothing has moved.
C17_Witness ==
    /\ ~sPlaying
    /\ keys = 2
    /\ frames = 0
    /\ sBall = BallAtRest
    /\ PaddleAtRest(sPaddle1)
    /\ PaddleAtRest(sPaddle2)
    /\ sPlayerScores = <<0, 0>>

\* What an entry point that returns at its check leaves alone: everything
\* but the record of the call itself (op, ret and the empty log).
RejectedCall ==
    /\ ret' = FALSE
    /\ log' = <<>>
    /\ UNCHANGED <<lifetimes, fail, up, misuse, runVars, gameVars, run, glVars>>

\* C18: Init called while initialized returns false, calls no lifetime
\* function and leaves the game initialized; Run called while not
\* initialized or while running executes no iteration and changes nothing;
\* Cleanup called while not initialized or while running calls no cleanup
\* function and changes nothing.
C18_GuardedEntryPoints ==
    [][/\ (sInitialized /\ InitCalled) => (RejectedCall /\ sInitialized')
       /\ ((~sInitialized \/ sRunning) /\ RunCalled) => RejectedCall
       /\ ((~sInitialized \/ sRunning) /\ CleanupCalled) => RejectedCall]_vars

\* Run was called while the loop of an earlier call was running, after one
\* iteration of it, and returned at once.
C18_Witness ==
    /\ op = "Run"
    /\ ~ret
    /\ sInitialized
    /\ sRunning
    /\ pc = "loop"
    /\ frames = 1
    /\ run.polls = 1
    /\ up = LeafInits

\* C19: whatever Init, Run and Cleanup calls are made and whichever leaf
\* inits fail, no leaf init function is called on a resource that is
\* initialized and no leaf cleanup function on one that is not (so the
\* assertions of Graphics::Init and Graphics::Cleanup hold); between the
\* calls the leaf resources are all initialized when the game is, and none
\* is when it is not.
C19_LeafInitAndCleanupAlternate ==
    /\ misuse = {}
    /\ Fn("Graphics::Init") \notin misuse
    /\ Fn("Graphics::Cleanup") \notin misuse
    /\ up = IF sInitialized THEN LeafInits ELSE {}

\* The game has been initialized, run, cleaned up and initialized again.
C19_Witness ==
    /\ op = "Init"
    /\ ret
    /\ run.finishes = 1
    /\ pc = "idle"
    /\ Len(log) = NumLeaves
    /\ up = LeafInits
    /\ misuse = {}

\* ---------------------------------------------------------------------------
\* The time delta of a frame (GetTimeDelta).

MaxClockFrames == 3

\* Readings of the clock: floats, each a whole number of ticks.
ClockReadings == {0, 1, 3, 5, TwoTo24, TwoTo24 + 2, 2 * TwoTo24, 2 * TwoTo24 + 4}

\* An iteration of the loop, Time::Get returning a reading that is not less
\* than the one before.
ClockFrame ==
    FrameReading(MaxClockFrames, {kNow \in ClockReadings : kNow >= run.clock})

ClockNext ==
    \/ ClockFrame
    \/ OnFinishRun
    \/ lepong_Run

SpecClock == Init /\ [][ClockNext]_vars

\* C21 as stated: every delta passed to OnUpdate is the reading minus the
\* reading before it, and the deltas passed so far add up to the latest
\* reading.
C21_AsStated ==
    /\ [][IsOnUpdate => frame'.delta = run'.clock - run.clock]_vars
    /\ [](run.deltas = run.clock)

\* C21: with readings that are non-negative and never decrease, the delta
\* passed to OnUpdate is not negative and is the float difference of the
\* reading and the reading of the previous GetTimeDelta call: the difference
\* itself when the reading is at most twice the previous one or at most 2^24
\* ticks, and else within one part in 2^24 of it. The first delta is the first
\* reading, the baseline being 0. The deltas add up to the latest reading
\* within one part in 2^24 of it, and to the reading itself while it is at
\* most 2^24 ticks. Entering Run again leaves the baseline and the sum as they
\* are, so all this holds across a second Run.
C21_DeltaIsFloatDifference ==
    /\ [][IsOnUpdate =>
            LET kNow == run'.clock
                exact == kNow - run.clock
                delta == frame'.delta
            IN  /\ run.clock = sLastTime
                /\ sLastTime' = kNow
                /\ delta >= 0
                /\ delta = FloatRound(exact)
                /\ TwoTo24 * Abs(delta - exact) <= exact
                /\ (kNow <= 2 * run.clock \/ kNow <= TwoTo24) => delta = exact
                /\ run.updates = 0 => delta = kNow
                /\ run'.deltas = run.deltas + delta]_vars
    /\ [](/\ TwoTo24 * Abs(run.clock - run.deltas) <= run.clock
          /\ run.clock <= TwoTo24 => run.deltas = run.clock)
    /\ [][pc = "idle" /\ pc' = "loop" =>
            /\ sLastTime' = sLastTime
            /\ run'.clock = run.clock
            /\ run'.deltas = run.deltas]_vars

\* Run has been entered a second time after a frame whose delta was not the
\* difference of the readings: the baseline is the latest reading and the sum
\* of the deltas has fallen behind it.
C21_Witness ==
    /\ pc = "loop"
    /\ run.steps = <<>>
    /\ run.updates >= 2
    /\ sLastTime = run.clock
    /\ run.deltas < run.clock
    /\ frame.delta = 0

\* ---------------------------------------------------------------------------
\* The index of the score that UpdateScores increments.

\* kScoreIndex for a side, and whether it is one of the two slots of
\* sPlayerScores.
ScoreIndex(side) == UnsignedSub(1, SideOrdinal(side))
InScores(kScoreIndex) == kScoreIndex.hi = 0 /\ kScoreIndex.lo \in {0, 1}

====
